---- MODULE Spec2Model ----
(***************************************************************************)
(* Model of the carto-challenge aggregation programs.                      *)
(*                                                                         *)
(*   variant = "mod"   carto-mod.cpp: CONCURRENCY_LEVEL = 3 workers,       *)
(*                     read() built on sscanf                              *)
(*   variant = "orig"  the two-worker program embedded in the Makefile     *)
(*                     (lines 31-232), read() built on istringstream       *)
(*                                                                         *)
(* Floats.  Every float the bounding-box test lets through has magnitude   *)
(* in [2^22, 2^23), where a float is a multiple of 0.5.  Coordinates are   *)
(* therefore integers counting half units (x = 2 * metres), the            *)
(* subtraction r.x - BBOX[0] is exact, and the product with resolution_inv *)
(* (the float 3511851 / 2^29) is computed exactly before it is truncated.  *)
(* Amounts are small integers, whose float sums are exact; a float         *)
(* quotient is kept as a reduced fraction <<numerator, denominator>>.      *)
(***************************************************************************)
EXTENDS Integers, Sequences, FiniteSets, TLC

VARIABLES variant, lines, lineno, rows, mpc, mi, iter,
          wpc, wbegin, wend, it, hist,
          result_promises, results, merged_result, g,
          ppm_x, ppm_y, ppm_max, ppm_line, ppm_col, ppm_last, ppm_div0

vars == <<variant, lines, lineno, rows, mpc, mi, iter,
          wpc, wbegin, wend, it, hist,
          result_promises, results, merged_result, g,
          ppm_x, ppm_y, ppm_max, ppm_line, ppm_col, ppm_last, ppm_div0>>

\* write_ppm: the loop variables x and y, max, and the state of the output:
\* the rows ended so far, the numbers on the row being written, the last
\* number written, and whether a quotient with divisor 0 was computed
ppmVars == <<ppm_x, ppm_y, ppm_max, ppm_line, ppm_col, ppm_last, ppm_div0>>

readVars == <<lines, lineno>>
workerVars == <<wpc, wbegin, wend, it, hist, result_promises>>

----------------------------------------------------------------------------
(* Bounds of the model *)

MaxRows == 4
MaxLines == 3

----------------------------------------------------------------------------
(* Program constants *)

\* BBOX[] as floats, in half units: 4970241.5, -8257645.0, 5009377.0, -8218509.5
BBOX0 == 9940483
BBOX1 == -16515290
BBOX2 == 10018754
BBOX3 == -16437019

pixel_resolution == 256

\* resolution_inv = float(1.0 / float(152.874056570353)) = 3511851 / 2^29
resolution_inv_num == 3511851
resolution_inv_exp == 29

grid_size == pixel_resolution * pixel_resolution

CONCURRENCY_LEVEL == 3

\* the two-worker program: worker1 and worker2
ORIG_WORKERS == 2

\* main runs grid() this many times
RUNS == 5

Variants == {"mod", "orig"}

K(v) == IF v = "mod" THEN CONCURRENCY_LEVEL ELSE ORIG_WORKERS

Workers == 1..CONCURRENCY_LEVEL

----------------------------------------------------------------------------
(* Float values as reduced fractions *)

Abs(n) == IF n < 0 THEN -n ELSE n

RECURSIVE GCD(_, _)
GCD(a, b) == IF b = 0 THEN a ELSE GCD(b, a % b)

Frac(n, d) ==
    LET k == GCD(Abs(n), Abs(d))
        s == IF d < 0 THEN -1 ELSE 1
    IN  <<(s * n) \div k, (s * d) \div k>>

FInt(n) == <<n, 1>>

FAdd(a, b) == Frac(a[1] * b[2] + b[1] * a[2], a[2] * b[2])

\* float / uint32 with a nonzero divisor
FDivN(a, n) == Frac(a[1], a[2] * n)

----------------------------------------------------------------------------
(* struct row, struct grid_pixel, std::vector<grid_pixel> *)

Row(x, y, amount) == [x |-> x, y |-> y, amount |-> amount]

\* grid_pixel(): avg(0.0f), count(0)
ZeroPixel == [avg |-> FInt(0), count |-> 0]

\* A vector of grid_size default pixels; only the cells written since are
\* kept, every other index holds ZeroPixel.
EmptyGrid == [i \in {} |-> ZeroPixel]

At(gr, i) == IF i \in DOMAIN gr THEN gr[i] ELSE ZeroPixel

Put(gr, i, px) == [j \in DOMAIN gr \cup {i} |-> IF j = i THEN px ELSE gr[j]]

----------------------------------------------------------------------------
(* sequential_grid: the loop body *)

\* the upper x test written with <=
InBBoxClosedAbove(r) == r.x > BBOX0 /\ r.x <= BBOX2 /\ r.y > BBOX1 /\ r.y < BBOX3

\* r.x > BBOX[0] && r.x < BBOX[2] && r.y > BBOX[1] && r.y < BBOX[3]
InBBox(r) == r.x > BBOX0 /\ r.x < BBOX2 /\ r.y > BBOX1 /\ r.y < BBOX3

\* the product rounded to the nearest integer instead of truncated
CellCoordRounded(d2) ==
    LET hi == resolution_inv_num \div 2048
        lo == resolution_inv_num % 2048
        sh == 2 ^ (resolution_inv_exp + 1 - 11)
    IN  (hi * d2 + ((lo * d2) \div 2048) + (sh \div 2)) \div sh

\* uint32_t c = resolution_inv * d, for a float d >= 0 given in half units:
\* floor(num * d2 / 2^(exp+1)), evaluated in two limbs to stay in 32 bits
CellCoord(d2) ==
    LET hi == resolution_inv_num \div 2048
        lo == resolution_inv_num % 2048
    IN  (hi * d2 + ((lo * d2) \div 2048)) \div (2 ^ (resolution_inv_exp + 1 - 11))

\* the index with row and column exchanged: hist[y * pixel_resolution + x]
CellIndexTransposed(r) ==
    CellCoord(r.y - BBOX1) * pixel_resolution + CellCoord(r.x - BBOX0)

\* hist[x * pixel_resolution + y]
CellIndex(r) ==
    CellCoord(r.x - BBOX0) * pixel_resolution + CellCoord(r.y - BBOX1)

\* the amount added without counting the record
BumpNoCount(px, r) == [avg |-> FAdd(px.avg, FInt(r.amount)), count |-> px.count]

\* the cell keeps the running average of its records instead of their sum
BumpRunningAverage(px, r) ==
    [avg |-> Frac(px.avg[1] * px.count + r.amount * px.avg[2],
                  px.avg[2] * (px.count + 1)),
     count |-> px.count + 1]

\* ++px.count; px.avg += r.amount;
Bump(px, r) == [avg |-> FAdd(px.avg, FInt(r.amount)), count |-> px.count + 1]

Accumulate(h, r) ==
    IF InBBox(r) THEN Put(h, CellIndex(r), Bump(At(h, CellIndex(r)), r)) ELSE h

\* the whole loop over [b, e), 0-based positions of rs
RECURSIVE SequentialGrid(_, _, _)
SequentialGrid(rs, b, e) ==
    IF b >= e THEN EmptyGrid
    ELSE Accumulate(SequentialGrid(rs, b, e - 1), rs[e])

----------------------------------------------------------------------------
(* grid(): the slices handed to the workers *)

SplitSize(v, n) == n \div K(v)

SliceBegin(v, n, i) ==
    IF v = "mod" THEN SplitSize(v, n) * (i - 1)
    ELSE IF i = 1 THEN 0 ELSE SplitSize(v, n)

\* the slice size rounded up instead of down
SliceEndRoundedUp(v, n, i) ==
    IF v = "mod" THEN ((n + K(v) - 1) \div K(v)) * i
    ELSE IF i = 1 THEN (n + K(v) - 1) \div K(v) ELSE n

SliceEnd(v, n, i) ==
    IF v = "mod" THEN SplitSize(v, n) * i
    ELSE IF i = 1 THEN SplitSize(v, n) ELSE n

----------------------------------------------------------------------------
(* grid(): the merge loop *)

RECURSIVE SumCount(_, _, _)
SumCount(rs, k, i) ==
    IF k = 0 THEN 0 ELSE SumCount(rs, k - 1, i) + At(rs[k], i).count

RECURSIVE SumAvg(_, _, _)
SumAvg(rs, k, i) ==
    IF k = 0 THEN FInt(0) ELSE FAdd(SumAvg(rs, k - 1, i), At(rs[k], i).avg)

\* carto-mod.cpp: count and avg accumulated over the results, then divided
MergePixelMod(rs, i) ==
    LET c == SumCount(rs, Len(rs), i)
        a == SumAvg(rs, Len(rs), i)
    IN  [avg |-> IF c # 0 THEN FDivN(a, c) ELSE a, count |-> c]

\* Makefile program: pixel.count = c1 + c2; avg = (a1 + a2) / count if count
MergePixelOrig(rs, i) ==
    LET c == At(rs[1], i).count + At(rs[2], i).count
    IN  [avg |-> IF c # 0 THEN FDivN(FAdd(At(rs[1], i).avg, At(rs[2], i).avg), c)
                 ELSE FInt(0),
         count |-> c]

\* the merge without the division by the combined count
MergePixelNoDivide(v, rs, i) ==
    [avg |-> SumAvg(rs, Len(rs), i), count |-> SumCount(rs, Len(rs), i)]

MergePixel(v, rs, i) ==
    IF v = "mod" THEN MergePixelMod(rs, i) ELSE MergePixelOrig(rs, i)

Touched(rs) == UNION {DOMAIN rs[k] : k \in 1..Len(rs)}

MergeGrids(v, rs) == [i \in Touched(rs) |-> MergePixel(v, rs, i)]

----------------------------------------------------------------------------
(* read(): one line of the file is the sequence of its whitespace-separated *)
(* tokens                                                                   *)

NumTokens == {"1", "2", "3", "4", "5", "6"}

\* the float a numeric token converts to
TokenValue(tok) ==
    CASE tok = "1" -> 1 [] tok = "2" -> 2 [] tok = "3" -> 3
      [] tok = "4" -> 4 [] tok = "5" -> 5 [] tok = "6" -> 6

\* how many of the three conversions succeed: they stop at the first token
\* that is no number, or at the end of the line
RECURSIVE Converted(_, _)
Converted(line, k) ==
    IF k < 3 /\ k < Len(line) /\ line[k + 1] \in NumTokens
    THEN Converted(line, k + 1) ELSE k

\* what a field of `row r;` that no conversion assigned may hold
Indeterminate == {0, 9}

LineSet == { <<"1", "2", "3">>, <<"4", "5", "6">>, <<"bad">>, <<"1", "2">>,
             <<"4", "5", "6", "1">> }

\* the record of a line whose three conversions succeed: amount y x, with
\* the coordinates in half units
ParsedRow(line) ==
    Row(2 * TokenValue(line[3]), 2 * TokenValue(line[2]), TokenValue(line[1]))

\* carto-mod.cpp: sscanf assigns the converted fields, the result is not
\* looked at and r is pushed whatever it holds
SscanfRows(line) ==
    LET n == Converted(line, 0)
    IN  { Row(x, y, a) :
            a \in (IF n >= 1 THEN {TokenValue(line[1])} ELSE Indeterminate),
            y \in (IF n >= 2 THEN {2 * TokenValue(line[2])} ELSE Indeterminate),
            x \in (IF n >= 3 THEN {2 * TokenValue(line[3])} ELSE Indeterminate) }

\* Makefile program: if (!(iss >> r.amount >> r.y >> r.x)) break;
StreamOk(line) == Converted(line, 0) = 3

\* while (std::getline(file, line)) { ... }
ReadLine ==
    /\ mpc = "read"
    /\ lineno < Len(lines)
    /\ LET line == lines[lineno + 1] IN
         IF variant = "mod"
         THEN /\ \E r \in SscanfRows(line) : rows' = Append(rows, r)
              /\ lineno' = lineno + 1
              /\ mpc' = mpc
         ELSE IF StreamOk(line)
              THEN /\ rows' = Append(rows, ParsedRow(line))
                   /\ lineno' = lineno + 1
                   /\ mpc' = mpc
              ELSE /\ rows' = rows
                   /\ lineno' = lineno + 1
                   /\ mpc' = "spawn"
    /\ UNCHANGED <<ppmVars, variant, lines, mi, iter, workerVars, results, merged_result, g>>

\* getline fails at the end of the file: read returns, main enters its loop
ReadEOF ==
    /\ mpc = "read"
    /\ lineno = Len(lines)
    /\ mpc' = "spawn"
    /\ UNCHANGED <<ppmVars, variant, lines, lineno, rows, mi, iter, workerVars, results,
                   merged_result, g>>

----------------------------------------------------------------------------
(* sequential_grid, one thread per worker *)

\* one accumulator shared by all the workers
HistShared(i) == 1

\* the vector a worker accumulates into is its own local `hist`
HistOf(i) == i

\* one iteration of for (auto it = begin; it != end; ++it)
WorkerStep(i) ==
    /\ wpc[i] = "run"
    /\ it[i] # wend[i]
    /\ hist' = [hist EXCEPT ![HistOf(i)] = Accumulate(hist[HistOf(i)], rows[it[i] + 1])]
    /\ it' = [it EXCEPT ![i] = it[i] + 1]
    /\ UNCHANGED <<ppmVars, variant, readVars, rows, mpc, mi, iter, wpc, wbegin, wend,
                   result_promises, results, merged_result, g>>

\* the value is set before the loop has reached the end of the slice
WorkerSetValueEarly(i) ==
    /\ wpc[i] = "run"
    /\ result_promises' = [result_promises EXCEPT ![i] = <<hist[HistOf(i)]>>]
    /\ wpc' = [wpc EXCEPT ![i] = "fulfilled"]
    /\ UNCHANGED <<ppmVars, variant, readVars, rows, mpc, mi, iter, wbegin, wend, it, hist,
                   results, merged_result, g>>

\* promise.set_value(hist)
WorkerSetValue(i) ==
    /\ wpc[i] = "run"
    /\ it[i] = wend[i]
    /\ result_promises' = [result_promises EXCEPT ![i] = <<hist[HistOf(i)]>>]
    /\ wpc' = [wpc EXCEPT ![i] = "fulfilled"]
    /\ UNCHANGED <<ppmVars, variant, readVars, rows, mpc, mi, iter, wbegin, wend, it, hist,
                   results, merged_result, g>>

\* the thread never finishes after it has set the value
WorkerExitStuck(i) ==
    /\ wpc[i] = "fulfilled"
    /\ UNCHANGED vars

\* the thread function returns: hist is destroyed, the thread has finished
WorkerExit(i) ==
    /\ wpc[i] = "fulfilled"
    /\ wpc' = [wpc EXCEPT ![i] = "exited"]
    /\ hist' = [hist EXCEPT ![HistOf(i)] = EmptyGrid]
    /\ UNCHANGED <<ppmVars, variant, readVars, rows, mpc, mi, iter, wbegin, wend, it,
                   result_promises, results, merged_result, g>>

----------------------------------------------------------------------------
(* grid(), the calling thread *)

\* workers[i] = std::thread(sequential_grid, begin, end, promise)
Spawn ==
    /\ mpc = "spawn"
    /\ iter < RUNS
    /\ wpc' = [wpc EXCEPT ![mi] = "run"]
    /\ wbegin' = [wbegin EXCEPT ![mi] = SliceBegin(variant, Len(rows), mi)]
    /\ wend' = [wend EXCEPT ![mi] = SliceEnd(variant, Len(rows), mi)]
    /\ it' = [it EXCEPT ![mi] = SliceBegin(variant, Len(rows), mi)]
    /\ hist' = [hist EXCEPT ![mi] = EmptyGrid]
    /\ IF mi = K(variant)
       THEN mpc' = "join" /\ mi' = 1
       ELSE mpc' = mpc /\ mi' = mi + 1
    /\ UNCHANGED <<ppmVars, variant, readVars, rows, iter, result_promises, results,
                   merged_result, g>>

\* a join that only checks that the thread was started
ThreadStarted(i) == wpc[i] # "unstarted"

\* worker.join() returns once the thread has finished
ThreadFinished(i) == wpc[i] = "exited"

Join ==
    /\ mpc = "join"
    /\ ThreadFinished(mi)
    /\ IF mi = K(variant)
       THEN mpc' = "get" /\ mi' = 1
       ELSE mpc' = mpc /\ mi' = mi + 1
    /\ UNCHANGED <<ppmVars, variant, readVars, rows, iter, workerVars, results,
                   merged_result, g>>

\* future.get() returns once the promise holds a value
Get ==
    /\ mpc = "get"
    /\ result_promises[mi] # <<>>
    /\ results' = Append(results, result_promises[mi][1])
    /\ IF mi = K(variant)
       THEN mpc' = "merge" /\ mi' = 1
       ELSE mpc' = mpc /\ mi' = mi + 1
    /\ UNCHANGED <<ppmVars, variant, readVars, rows, iter, workerVars, merged_result, g>>

Merge ==
    /\ mpc = "merge"
    /\ merged_result' = MergeGrids(variant, results)
    /\ mpc' = "return"
    /\ UNCHANGED <<ppmVars, variant, readVars, rows, mi, iter, workerVars, results, g>>

\* return merged_result; g = grid(rows); the locals of grid() are gone and
\* main's loop goes on
Return ==
    /\ mpc = "return"
    /\ g' = merged_result
    /\ iter' = iter + 1
    /\ mpc' = IF iter + 1 < RUNS THEN "spawn" ELSE "done"
    /\ mi' = 1
    /\ wpc' = [i \in Workers |-> "unstarted"]
    /\ wbegin' = [i \in Workers |-> 0]
    /\ wend' = [i \in Workers |-> 0]
    /\ it' = [i \in Workers |-> 0]
    /\ hist' = [i \in Workers |-> EmptyGrid]
    /\ result_promises' = [i \in Workers |-> <<>>]
    /\ results' = <<>>
    /\ merged_result' = EmptyGrid
    /\ UNCHANGED <<ppmVars, variant, readVars, rows>>

----------------------------------------------------------------------------
(* Inputs *)

\* x, y in half units
RecA == Row(BBOX0 + 306, BBOX1 + 612, 10)
RecB == Row(BBOX0 + 400, BBOX1 + 700, 20)
RecC == Row(BBOX2 - 1, BBOX3 - 1, 5)
RecD == Row(BBOX2, BBOX1 + 612, 7)

Records == {RecA, RecB, RecC, RecD}

\* on the x_min, y_min and y_max edges, just inside the minimum corner, and
\* far outside
RecW == Row(BBOX0, BBOX1 + 612, 3)
RecS == Row(BBOX0 + 306, BBOX1, 3)
RecN == Row(BBOX0 + 306, BBOX3, 3)
RecMin == Row(BBOX0 + 1, BBOX1 + 1, 3)
RecOut == Row(0, 0, 3)

EdgeRecords == {RecW, RecS, RecN, RecMin, RecOut}

EdgeRows == {<<a, b, c>> : a \in EdgeRecords, b \in EdgeRecords, c \in EdgeRecords}

RECURSIVE SeqsUpTo(_, _)
SeqsUpTo(S, n) ==
    IF n = 0 THEN {<<>>}
    ELSE LET shorter == SeqsUpTo(S, n - 1)
         IN  shorter \cup {Append(s, e) : s \in {t \in shorter : Len(t) = n - 1}, e \in S}

\* write_ppm has not been called
PpmIdle ==
    /\ ppm_x = 0
    /\ ppm_y = 0
    /\ ppm_max = FInt(0)
    /\ ppm_line = 0
    /\ ppm_col = 0
    /\ ppm_last = 0
    /\ ppm_div0 = FALSE

NoRun ==
    /\ mi = 1
    /\ iter = 0
    /\ wpc = [i \in Workers |-> "unstarted"]
    /\ wbegin = [i \in Workers |-> 0]
    /\ wend = [i \in Workers |-> 0]
    /\ it = [i \in Workers |-> 0]
    /\ hist = [i \in Workers |-> EmptyGrid]
    /\ result_promises = [i \in Workers |-> <<>>]
    /\ results = <<>>
    /\ merged_result = EmptyGrid
    /\ g = EmptyGrid
    /\ PpmIdle

\* main has loaded the rows and enters its loop
Init ==
    /\ variant \in Variants
    /\ lines = <<>>
    /\ lineno = 0
    /\ rows \in SeqsUpTo(Records, MaxRows) \cup EdgeRows
    /\ mpc = "spawn"
    /\ NoRun

Next ==
    \/ Spawn
    \/ \E i \in Workers : WorkerStep(i)
    \/ \E i \in Workers : WorkerSetValue(i)
    \/ \E i \in Workers : WorkerExit(i)
    \/ Join
    \/ Get
    \/ Merge
    \/ Return

Spec == Init /\ [][Next]_vars

\* main calls read on the file
InitRead ==
    /\ variant \in Variants
    /\ lines \in SeqsUpTo(LineSet, MaxLines)
    /\ lineno = 0
    /\ rows = <<>>
    /\ mpc = "read"
    /\ NoRun

NextRead == ReadLine \/ ReadEOF

SpecRead == InitRead /\ [][NextRead]_vars

----------------------------------------------------------------------------
(* The cell mapping over the whole coordinate range: the two-worker program *)
(* on a file of one record, both workers spawned; the second worker's slice *)
(* is that record.                                                          *)

XSweep == {Row(x, BBOX1 + 612, 1) : x \in (BBOX0 - 2)..(BBOX2 + 2)}
YSweep == {Row(BBOX0 + 306, y, 1) : y \in (BBOX1 - 2)..(BBOX3 + 2)}
Corners == {Row(BBOX0 + 1, BBOX1 + 1, 1), Row(BBOX2 - 1, BBOX3 - 1, 1),
            Row(BBOX0 + 1, BBOX3 - 1, 1), Row(BBOX2 - 1, BBOX1 + 1, 1)}

InitCell ==
    /\ variant = "orig"
    /\ lines = <<>>
    /\ lineno = 0
    /\ rows \in {<<r>> : r \in XSweep \cup YSweep \cup Corners}
    /\ mpc = "join"
    /\ mi = 1
    /\ iter = 0
    /\ wpc = [i \in Workers |-> IF i <= K(variant) THEN "run" ELSE "unstarted"]
    /\ wbegin = [i \in Workers |-> IF i <= K(variant) THEN SliceBegin(variant, 1, i) ELSE 0]
    /\ wend = [i \in Workers |-> IF i <= K(variant) THEN SliceEnd(variant, 1, i) ELSE 0]
    /\ it = wbegin
    /\ hist = [i \in Workers |-> EmptyGrid]
    /\ result_promises = [i \in Workers |-> <<>>]
    /\ results = <<>>
    /\ merged_result = EmptyGrid
    /\ g = EmptyGrid
    /\ PpmIdle

NextCell == \E i \in Workers : WorkerStep(i)

SpecCell == InitCell /\ [][NextCell]_vars

----------------------------------------------------------------------------
(* Vocabulary of the properties *)

Running(i) == wpc[i] \in {"run", "fulfilled"}

Spawned == mpc \in {"join", "get", "merge", "return"}

\* worker i executes one iteration of its loop in this step
Steps(i) == wpc[i] = "run" /\ it'[i] = it[i] + 1

StrictlyInside(r) == BBOX0 < r.x /\ r.x < BBOX2 /\ BBOX1 < r.y /\ r.y < BBOX3

Changed(h1, h2) == {j \in DOMAIN h1 \cup DOMAIN h2 : At(h1, j) # At(h2, j)}

RECURSIVE AmountOver(_, _)
AmountOver(rs, P) ==
    IF P = {} THEN 0
    ELSE LET p == CHOOSE q \in P : TRUE
         IN  rs[p].amount + AmountOver(rs, P \ {p})

RECURSIVE CountOver(_, _, _)
CountOver(rs, S, i) ==
    IF S = {} THEN 0
    ELSE LET k == CHOOSE q \in S : TRUE
         IN  At(rs[k], i).count + CountOver(rs, S \ {k}, i)

RECURSIVE AvgOver(_, _, _)
AvgOver(rs, S, i) ==
    IF S = {} THEN FInt(0)
    ELSE LET k == CHOOSE q \in S : TRUE
         IN  FAdd(At(rs[k], i).avg, AvgOver(rs, S \ {k}, i))

\* the row positions (1-based) of the records strictly inside the box that
\* the code maps to cell i
Hits(rs, i) == {p \in 1..Len(rs) : StrictlyInside(rs[p]) /\ CellIndex(rs[p]) = i}

HitCells(rs) == {CellIndex(rs[p]) : p \in {q \in 1..Len(rs) : StrictlyInside(rs[q])}}

\* the partial grids of a reducer with the slices of variant v
Partials(v, rs) ==
    [k \in 1..K(v) |->
        SequentialGrid(rs, SliceBegin(v, Len(rs), k), SliceEnd(v, Len(rs), k))]

Other(v) == IF v = "mod" THEN "orig" ELSE "mod"

----------------------------------------------------------------------------
(* write_ppm *)

\* Naturals too large for one machine integer: base-10000 digits, least
\* significant first
BigBase == 10000

RECURSIVE BigTimesFrom(_, _, _, _)
BigTimesFrom(b, m, k, carry) ==
    IF k > Len(b) THEN (IF carry = 0 THEN <<>> ELSE <<carry>>)
    ELSE LET t == b[k] * m + carry
         IN  <<t % BigBase>> \o BigTimesFrom(b, m, k + 1, t \div BigBase)

\* b * m for 0 < m < BigBase
BigTimes(b, m) == BigTimesFrom(b, m, 1, 0)

RECURSIVE BigLeqFrom(_, _, _)
BigLeqFrom(a, b, k) ==
    IF k = 0 THEN TRUE
    ELSE IF a[k] # b[k] THEN a[k] < b[k]
    ELSE BigLeqFrom(a, b, k - 1)

BigLeq(a, b) ==
    IF Len(a) # Len(b) THEN Len(a) < Len(b) ELSE BigLeqFrom(a, b, Len(a))

BigPow5Sq(a, b) ==
    BigTimes(BigTimes(BigTimes(BigTimes(BigTimes(BigTimes(BigTimes(<<1>>, a), a), a), a), a), b), b)

\* avg*240 scales by this, and 15 is added
ppm_scale == 240
ppm_base == 15

\* uint32_t(std::pow(p/q, 0.4f) * 240) for 0 <= p/q <= 1: the largest k with
\* (k/240)^5 <= (p/q)^2
FloorPow(p, q) ==
    IF p = 0 THEN 0
    ELSE IF p = q THEN ppm_scale
    ELSE CHOOSE k \in 0..ppm_scale :
            /\ k = 0 \/ BigLeq(BigPow5Sq(k, q), BigPow5Sq(ppm_scale, p))
            /\ ~BigLeq(BigPow5Sq(k + 1, q), BigPow5Sq(ppm_scale, p))

FLess(a, b) == a[1] * b[2] < b[1] * a[2]

\* px.avg * px.count
Weight(px) == Frac(px.avg[1] * px.count, px.avg[2])

\* max_px->avg * max_px->count for the max_element of the grid_size cells;
\* the cells never written have weight 0
MaxWeight(gr) ==
    LET W == {Weight(gr[i]) : i \in DOMAIN gr} \cup {FInt(0)}
    IN  CHOOSE w \in W : \A v \in W : ~FLess(w, v)

\* What the conversion of a NaN or of an infinity to uint32_t, which the
\* language leaves undefined, may yield: 0, or 2^32 - 1 (written -1: the
\* addition that follows wraps modulo 2^32).
ConvUndefined == {0, -1}

\* the numbers `15 + uint32_t(std::pow(px.avg*px.count/max, 0.4f) * 240)` may
\* be.  With max = 0 the quotient is a NaN or an infinity; a negative quotient
\* has the NaN for power.
Intensity(gr, mx, idx) ==
    LET w == Weight(At(gr, idx))
    IN  IF mx[1] > 0 /\ w[1] >= 0
        THEN {ppm_base + FloorPow(w[1] * mx[2], w[2] * mx[1])}
        ELSE {ppm_base + u : u \in ConvUndefined}

\* the index with the row taken from the top: grid[(255 - x) * 256 + y]
PpmIndexFromTop(x, y) == (pixel_resolution - 1 - x) * pixel_resolution + y

\* grid[x * pixel_resolution + y]
PpmIndex(x, y) == x * pixel_resolution + y

\* the three header lines; max; x = pixel_resolution - 1
PpmHeader ==
    /\ mpc = "done"
    /\ mpc' = "ppm"
    /\ ppm_max' = MaxWeight(g)
    /\ ppm_x' = pixel_resolution - 1
    /\ ppm_y' = 0
    /\ UNCHANGED <<variant, readVars, rows, mi, iter, workerVars, results,
                   merged_result, g, ppm_line, ppm_col, ppm_last, ppm_div0>>

\* one iteration of the inner loop
PpmPixel ==
    /\ mpc = "ppm"
    /\ ppm_x >= 0
    /\ ppm_y < pixel_resolution
    /\ \E v \in Intensity(g, ppm_max, PpmIndex(ppm_x, ppm_y)) : ppm_last' = v
    /\ ppm_div0' = (ppm_div0 \/ ppm_max[1] = 0)
    /\ ppm_col' = ppm_col + 1
    /\ ppm_y' = ppm_y + 1
    /\ UNCHANGED <<variant, readVars, rows, mpc, mi, iter, workerVars, results,
                   merged_result, g, ppm_x, ppm_max, ppm_line>>

\* std::cout << std::endl; --x
PpmEndl ==
    /\ mpc = "ppm"
    /\ ppm_x >= 0
    /\ ppm_y = pixel_resolution
    /\ ppm_line' = ppm_line + 1
    /\ ppm_col' = 0
    /\ ppm_x' = ppm_x - 1
    /\ ppm_y' = 0
    /\ UNCHANGED <<variant, readVars, rows, mpc, mi, iter, workerVars, results,
                   merged_result, g, ppm_max, ppm_last, ppm_div0>>

\* x < 0: write_ppm returns and main returns 0
PpmReturn ==
    /\ mpc = "ppm"
    /\ ppm_x < 0
    /\ mpc' = "exit"
    /\ UNCHANGED <<variant, readVars, rows, mi, iter, workerVars, results,
                   merged_result, g, ppmVars>>

\* the grid grid(rows) returns
GridOf(v, rs) == MergeGrids(v, Partials(v, rs))

RecNeg == Row(BBOX2 - 1, BBOX3 - 1, -5)

PpmRows == { <<>>,
             <<RecA, RecB, RecMin>>,
             <<RecA, RecNeg, RecB>>,
             <<RecNeg, RecNeg, RecNeg>> }

\* main has left its loop: g is the grid of the last run
InitPpm ==
    /\ variant \in Variants
    /\ lines = <<>>
    /\ lineno = 0
    /\ rows \in PpmRows
    /\ mpc = "done"
    /\ mi = 1
    /\ iter = RUNS
    /\ wpc = [i \in Workers |-> "unstarted"]
    /\ wbegin = [i \in Workers |-> 0]
    /\ wend = [i \in Workers |-> 0]
    /\ it = [i \in Workers |-> 0]
    /\ hist = [i \in Workers |-> EmptyGrid]
    /\ result_promises = [i \in Workers |-> <<>>]
    /\ results = <<>>
    /\ merged_result = EmptyGrid
    /\ g = GridOf(variant, rows)
    /\ PpmIdle

NextPpm == PpmHeader \/ PpmPixel \/ PpmEndl \/ PpmReturn

SpecPpm == InitPpm /\ [][NextPpm]_vars

----------------------------------------------------------------------------
(* A worker that throws, and the scheduling of the threads *)

MaxSmallRows == 3

\* the exception is swallowed and the process goes on
ExceptionSwallowed(pc) == pc

\* an exception that leaves the function of a std::thread ends the process
\* (std::terminate)
AfterWorkerThrows(pc) == "terminated"

\* hist.resize(grid_size), or the copy of hist that promise.set_value makes,
\* cannot allocate and throws std::bad_alloc
WorkerThrows(i) ==
    /\ mpc # "terminated"
    /\ wpc[i] = "run"
    /\ it[i] = wbegin[i] \/ it[i] = wend[i]
    /\ wpc' = [wpc EXCEPT ![i] = "failed"]
    /\ mpc' = AfterWorkerThrows(mpc)
    /\ UNCHANGED <<ppmVars, variant, readVars, rows, mi, iter, wbegin, wend, it,
                   hist, result_promises, results, merged_result, g>>

SmallRecords == {RecA}

InitSmall ==
    /\ variant \in Variants
    /\ lines = <<>>
    /\ lineno = 0
    /\ rows \in SeqsUpTo(SmallRecords, MaxSmallRows)
    /\ mpc = "spawn"
    /\ NoRun

\* the process runs until it is terminated
NextFail ==
    \/ mpc # "terminated" /\ Next
    \/ \E i \in Workers : WorkerThrows(i)

SpecFail == InitSmall /\ [][NextFail]_vars

\* the calling thread and every worker thread are scheduled again and again
MainThread == Spawn \/ Join \/ Get \/ Merge \/ Return

WorkerThread(i) == WorkerStep(i) \/ WorkerSetValue(i) \/ WorkerExit(i)

SpecFair ==
    /\ InitSmall
    /\ [][Next]_vars
    /\ WF_vars(MainThread)
    /\ \A i \in Workers : WF_vars(WorkerThread(i))

----------------------------------------------------------------------------
(* C1 *)

\* C1: once grid() has spawned its K workers, every record position in
\* [0, n) lies in the slice of exactly one worker: no record is dropped and
\* none is handed out twice.
C1_SlicesPartitionRows ==
    Spawned =>
        \A p \in 0..(Len(rows) - 1) :
            Cardinality({i \in 1..K(variant) : wbegin[i] <= p /\ p < wend[i]}) = 1

----------------------------------------------------------------------------
(* C2 *)

\* C2: the grid that grid() is about to return holds, in every cell, the
\* number of records of the whole input that lie strictly inside the box
\* and map to the cell, and the sum of their amounts divided by that number;
\* every other cell is zero.
C2_GridIsPerCellAverage ==
    mpc = "return" =>
        \A i \in DOMAIN merged_result \cup HitCells(rows) :
            LET P == Hits(rows, i)
            IN  /\ At(merged_result, i).count = Cardinality(P)
                /\ At(merged_result, i).avg =
                      IF P = {} THEN FInt(0)
                      ELSE Frac(AmountOver(rows, P), Cardinality(P))

----------------------------------------------------------------------------
(* C3 *)

\* C3: the per-cell counts and the per-cell combined sums the running
\* reducer has merged are those of the reducer of the other concurrency
\* level and those of one aggregation over the whole sequence (K = 1).
C3_PartitionInvariance ==
    mpc = "return" =>
        LET one == SequentialGrid(rows, 0, Len(rows))
            other == Partials(Other(variant), rows)
        IN  \A i \in DOMAIN merged_result \cup DOMAIN one \cup Touched(other) :
                /\ At(merged_result, i).count = At(one, i).count
                /\ AvgOver(results, DOMAIN results, i) = At(one, i).avg
                /\ At(merged_result, i).count = CountOver(other, DOMAIN other, i)
                /\ AvgOver(results, DOMAIN results, i) = AvgOver(other, DOMAIN other, i)

----------------------------------------------------------------------------
(* C4 *)

\* C4: whenever the calling thread is reading the futures, merging or about
\* to return, and whenever it holds any partial result, every one of the K
\* workers has finished.
C4_MergeAfterAllJoined ==
    (mpc \in {"get", "merge", "return"} \/ results # <<>>) =>
        \A i \in 1..K(variant) : wpc[i] = "exited"

C4_Witness ==
    /\ mpc = "merge"
    /\ Len(results) = K(variant)
    /\ \E k \in 1..Len(results) : results[k] # EmptyGrid
    /\ \A i \in 1..K(variant) : wpc[i] = "exited"

----------------------------------------------------------------------------
(* C5 *)

\* C5: in every step the input rows stay as they are; a worker's grid
\* changes only in a step of that worker, in which neither the calling
\* thread nor any other worker moves; a promise is fulfilled only by its own
\* worker; and the record a worker reads lies in its own slice and in no
\* other worker's slice.
C5_Step ==
    /\ rows' = rows
    /\ \A i \in Workers :
        /\ hist'[i] # hist[i] =>
              /\ Running(i)
              /\ wpc'[i] # wpc[i] \/ it'[i] # it[i]
              /\ mpc' = mpc /\ results' = results /\ merged_result' = merged_result
              /\ \A j \in Workers \ {i} :
                    wpc'[j] = wpc[j] /\ it'[j] = it[j] /\ hist'[j] = hist[j]
        /\ (result_promises'[i] # result_promises[i] /\ mpc # "return") =>
              wpc[i] = "run" /\ wpc'[i] = "fulfilled" /\ mpc' = mpc
        /\ Steps(i) =>
              /\ wbegin[i] <= it[i] /\ it[i] < wend[i]
              /\ \A j \in Workers \ {i} : ~(wbegin[j] <= it[i] /\ it[i] < wend[j])

C5_NoSharedMutableState == [][C5_Step]_vars

C5_Witness ==
    /\ wpc[1] = "run" /\ wpc[2] = "run"
    /\ hist[1] # EmptyGrid /\ hist[2] # EmptyGrid
    /\ it[1] = wend[1]
    /\ it[2] < wend[2]

----------------------------------------------------------------------------
(* C6 *)

\* C6: after the merge, every cell of the merged grid has as count the sum
\* of that cell's counts over the K partial grids, and as average the sum of
\* the K partial sums divided by that count, or 0 when the count is 0.
C6_MergeSumsThenDivides ==
    mpc = "return" =>
        /\ Len(results) = K(variant)
        /\ \A i \in DOMAIN merged_result \cup Touched(results) \cup {0} :
            LET c == CountOver(results, DOMAIN results, i)
                a == AvgOver(results, DOMAIN results, i)
            IN  /\ At(merged_result, i).count = c
                /\ At(merged_result, i).avg = IF c # 0 THEN Frac(a[1], a[2] * c) ELSE FInt(0)

C6_Witness ==
    /\ mpc = "return"
    /\ \E i \in DOMAIN merged_result :
        /\ At(results[1], i).count > 0
        /\ At(results[2], i).count > 0
        /\ merged_result[i].avg # AvgOver(results, DOMAIN results, i)

----------------------------------------------------------------------------
(* C7 *)

RECURSIVE CountIn(_, _)
CountIn(h, D) ==
    IF D = {} THEN 0
    ELSE LET j == CHOOSE q \in D : TRUE
         IN  h[j].count + CountIn(h, D \ {j})

TotalCount(h) == CountIn(h, DOMAIN h)

\* C7: the record a worker processes changes that worker's grid if and only
\* if it lies strictly inside the box, and then adds exactly one to the
\* grid's counts; a record on an edge or outside leaves every partial grid
\* as it was, and no cell of the final grid counts more than the records
\* strictly inside the box that map to it.
C7_Step ==
    /\ \A i \in Workers :
        Steps(i) =>
            LET r == rows[it[i] + 1]
            IN  /\ StrictlyInside(r) <=> hist'[i] # hist[i]
                /\ ~StrictlyInside(r) => hist' = hist
                /\ StrictlyInside(r) => TotalCount(hist'[i]) = TotalCount(hist[i]) + 1
    /\ \A j \in DOMAIN merged_result' :
        merged_result'[j].count <= Cardinality(Hits(rows, j))

C7_BoundaryExclusion == [][C7_Step]_vars

C7_Witness ==
    \E i \in Workers :
        /\ wpc[i] = "run"
        /\ it[i] = wbegin[i] + 2
        /\ StrictlyInside(rows[it[i] - 1])
        /\ rows[it[i]] \in {RecD, RecW, RecS, RecN}
        /\ DOMAIN hist[i] = {CellIndex(rows[it[i] - 1])}
        /\ TotalCount(hist[i]) = 1

----------------------------------------------------------------------------
(* C8 *)

\* the records of worker i's slice processed so far that lie in the box
Processed(i) == {p \in (wbegin[i] + 1)..it[i] : StrictlyInside(rows[p])}

----------------------------------------------------------------------------
(* C9 *)

\* C9: a record strictly inside the box that a worker has processed has its
\* x cell and its y cell in [0, resolution_pixels - 1] and was accumulated
\* at an index in [0, grid_size); the record just inside the minimum corner
\* went to cell (0,0), index 0, and the record just inside the maximum
\* corner to cell (255,255), the last index.
C9_CellInsideGrid ==
    \A i \in Workers :
        it[i] > wbegin[i] =>
            LET r == rows[it[i]]
            IN  /\ StrictlyInside(r) =>
                    /\ CellCoord(r.x - BBOX0) \in 0..(pixel_resolution - 1)
                    /\ CellCoord(r.y - BBOX1) \in 0..(pixel_resolution - 1)
                    /\ DOMAIN hist[i] # {}
                    /\ DOMAIN hist[i] \subseteq 0..(grid_size - 1)
                /\ (r.x = BBOX0 + 1 /\ r.y = BBOX1 + 1) => DOMAIN hist[i] = {0}
                /\ (r.x = BBOX2 - 1 /\ r.y = BBOX3 - 1) =>
                        DOMAIN hist[i] = {grid_size - 1}

C9_Witness ==
    \E i \in Workers :
        /\ it[i] > wbegin[i]
        /\ rows[it[i]].x = BBOX2 - 1
        /\ rows[it[i]].y = BBOX3 - 1
        /\ DOMAIN hist[i] = {(pixel_resolution - 1) * pixel_resolution + pixel_resolution - 1}

----------------------------------------------------------------------------
(* C10 *)

WellFormed(line) == Len(line) >= 3 /\ \A k \in 1..3 : line[k] \in NumTokens

RECURSIVE RowsBeforeFirstMalformed(_)
RowsBeforeFirstMalformed(ls) ==
    IF ls = <<>> \/ ~WellFormed(Head(ls)) THEN <<>>
    ELSE <<ParsedRow(Head(ls))>> \o RowsBeforeFirstMalformed(Tail(ls))

\* C10: when read has returned, the rows are exactly the records of the
\* well-formed lines that precede the first malformed line, in order.
C10_TruncateAtFirstMalformedLine ==
    mpc = "spawn" => rows = RowsBeforeFirstMalformed(lines)

----------------------------------------------------------------------------
(* C11 *)

AllCountsZero(gr) == \A i \in DOMAIN gr : gr[i].count = 0

\* C11: when every cell of the grid handed to write_ppm has count 0, no
\* quotient with divisor 0 is computed and every number written is 15.
C11_EmptyGridRendersMinimum ==
    (mpc \in {"ppm", "exit"} /\ AllCountsZero(g)) =>
        /\ ~ppm_div0
        /\ (ppm_line > 0 \/ ppm_col > 0) => ppm_last = 15

----------------------------------------------------------------------------
(* C12 *)

\* C12: every number write_ppm writes for a pixel is an integer in
\* [15, 255], whatever the signs of the sums of the grid.
C12_IntensitiesInRange ==
    (mpc \in {"ppm", "exit"} /\ (ppm_line > 0 \/ ppm_col > 0)) =>
        ppm_last \in 15..255

----------------------------------------------------------------------------
(* C17 *)

\* C17: the number written last is number ppm_col of output row ppm_line
\* (0-based, after the header), and it is the pixel of grid row
\* resolution_pixels - 1 - ppm_line and grid column ppm_col - 1; an output
\* row is ended when it holds resolution_pixels numbers, and write_ppm
\* returns when resolution_pixels rows are written: every cell is written
\* once, the last grid row first, the columns in increasing order.
C17_RowsWrittenLastFirst ==
    mpc \in {"ppm", "exit"} =>
        /\ ppm_col \in 0..pixel_resolution
        /\ ppm_line \in 0..pixel_resolution
        /\ ppm_col > 0 =>
              /\ ppm_line < pixel_resolution
              /\ ppm_last \in Intensity(g, MaxWeight(g),
                    (pixel_resolution - 1 - ppm_line) * pixel_resolution + (ppm_col - 1))
        /\ (ppm_col = 0 /\ ppm_line > 0) => ppm_y = 0 /\ ppm_x = pixel_resolution - 1 - ppm_line
        /\ mpc = "exit" => ppm_line = pixel_resolution /\ ppm_col = 0

\* the pixel of grid row 1, column 2 (cell 258, the cell of RecA and RecB,
\* the maximum) has been written as number 3 of output row 254
C17_Witness ==
    /\ mpc = "ppm"
    /\ rows = <<RecA, RecB, RecMin>>
    /\ variant = "mod"
    /\ ppm_line = 254
    /\ ppm_col = 3
    /\ ppm_last = 255

----------------------------------------------------------------------------
(* C13 *)

\* worker i has delivered the grid of its whole slice and has finished
Completed(i) ==
    /\ wpc[i] = "exited"
    /\ result_promises[i] = <<SequentialGrid(rows, wbegin[i], wend[i])>>

\* C13: grid() returns (main's run counter advances, g is assigned) only
\* from a state in which all K workers have completed and the K results are
\* their grids, and then g is the merge of those K results; once a worker
\* has failed the process is terminated, and a terminated process takes no
\* further step.
C13_Step ==
    /\ iter' # iter =>
          /\ Len(results) = K(variant)
          /\ \A i \in 1..K(variant) :
                Completed(i) /\ result_promises[i] = <<results[i]>>
          /\ g' = MergeGrids(variant, results)
    /\ (\E i \in Workers : wpc'[i] = "failed") => mpc' = "terminated"
    /\ mpc = "terminated" => UNCHANGED vars

C13_NoResultWithoutAllWorkers == [][C13_Step]_vars

\* a worker has failed after another one had delivered its grid
C13_Witness ==
    /\ mpc = "terminated"
    /\ \E i, j \in 1..K(variant) :
        /\ wpc[i] = "failed"
        /\ result_promises[j] # <<>>
        /\ result_promises[j][1] # EmptyGrid

----------------------------------------------------------------------------
(* C14 *)

AllExited == \A i \in 1..K(variant) : wpc[i] = "exited"

\* C14: with every thread scheduled fairly, every call of grid() returns
\* and main leaves its loop; the calling thread can always take its next
\* step except while it joins (reading a future never blocks); and grid()
\* is about to return only when every worker has finished.
C14_Termination ==
    /\ (mpc = "spawn" /\ iter < RUNS) ~> (mpc = "return")
    /\ <>(mpc = "done")
    /\ [](mpc \in {"spawn", "get", "merge", "return"} => ENABLED MainThread)
    /\ [](mpc = "return" => AllExited)

C14_Witness ==
    /\ mpc = "done"
    /\ iter = RUNS
    /\ g # EmptyGrid

----------------------------------------------------------------------------
(* C15 *)

ZeroCountZeroSum(px) == px.count = 0 => px.avg = FInt(0)

\* the first and the last cell of the grid, which no record of the inputs
\* maps to unless it lies in a corner
ProbeCells == {0, grid_size - 1}

GridOk(gr) == \A j \in DOMAIN gr \cup ProbeCells : ZeroCountZeroSum(At(gr, j))

\* C15: in every worker's accumulator after every iteration, in every
\* delivered and collected partial grid, in the merged grid and in the grid
\* main holds, a cell whose count is 0 has value 0; and the merge loop
\* computes such a pixel for every cell, written by a worker or not.
C15_ZeroCountHasZeroSum ==
    /\ \A i \in Workers :
        /\ GridOk(hist[i])
        /\ result_promises[i] # <<>> => GridOk(result_promises[i][1])
    /\ \A k \in 1..Len(results) : GridOk(results[k])
    /\ GridOk(merged_result)
    /\ GridOk(g)
    /\ Len(results) = K(variant) =>
          \A j \in HitCells(rows) \cup ProbeCells :
              ZeroCountZeroSum(MergePixel(variant, results, j))

C15_Witness ==
    /\ mpc = "return"
    /\ \E j \in DOMAIN merged_result : merged_result[j].count > 0
    /\ \E i \in 1..K(variant) : results[i] # EmptyGrid /\ At(results[i], 0).count = 0
    /\ At(merged_result, 0) = ZeroPixel
    /\ MergePixel(variant, results, 0) = ZeroPixel

----------------------------------------------------------------------------
(* C16 *)

\* the in-box records of worker i's slice, in the next state, that the code
\* maps to cell j
SliceHits(i, j) ==
    {p \in (wbegin'[i] + 1)..wend'[i] :
        StrictlyInside(rows'[p]) /\ CellIndex(rows'[p]) = j}

\* C16: the grid a worker delivers holds, for every cell, the number
\* of in-box records of its slice that map to the cell and the plain sum of
\* their amounts, and nothing for the other cells; and one iteration on an
\* in-box record changes exactly the record's cell, adding 1 to its count
\* and the amount to its value.
C16_Step ==
    \A i \in Workers :
        /\ (result_promises'[i] # result_promises[i] /\ result_promises'[i] # <<>>) =>
              LET d == result_promises'[i][1]
              IN  /\ DOMAIN d = {j \in HitCells(rows') : SliceHits(i, j) # {}}
                  /\ \A j \in DOMAIN d :
                        /\ d[j].count = Cardinality(SliceHits(i, j))
                        /\ d[j].avg = FInt(AmountOver(rows', SliceHits(i, j)))
        /\ (Steps(i) /\ StrictlyInside(rows[it[i] + 1])) =>
              LET r == rows[it[i] + 1]
                  j == CellIndex(r)
              IN  /\ Changed(hist[i], hist'[i]) = {j}
                  /\ At(hist'[i], j).count = At(hist[i], j).count + 1
                  /\ At(hist'[i], j).avg = FAdd(At(hist[i], j).avg, FInt(r.amount))

C16_AggregatorKeepsRawSums == [][C16_Step]_vars

\* a delivered grid with a cell of two records of different amounts
C16_Witness ==
    \E i \in Workers :
        /\ result_promises[i] # <<>>
        /\ \E j \in DOMAIN result_promises[i][1] :
            /\ result_promises[i][1][j].count = 2
            /\ result_promises[i][1][j].avg = FInt(RecA.amount + RecB.amount)

----------------------------------------------------------------------------
(* C18 *)

\* C18: whatever the order in which the workers run and finish, each
\* partial grid collected, the grid that the merge builds and the grid that
\* every call of grid() hands to main are functions of the program and the
\* records alone, which never change; so every call returns the same grid.
C18_Step ==
    /\ rows' = rows /\ variant' = variant
    /\ (results' # results /\ results' # <<>>) =>
          \A k \in 1..Len(results') : results'[k] = Partials(variant, rows)[k]
    /\ merged_result' # merged_result =>
          mpc = "return" \/ merged_result' = GridOf(variant, rows)
    /\ (iter' # iter \/ g' # g) =>
          /\ iter' = iter + 1
          /\ g' = merged_result
          /\ g' = GridOf(variant, rows)

C18_SameGridUnderEveryInterleaving == [][C18_Step]_vars

\* the second or a later call is about to return the grid of the calls
\* before it, a grid with two cells
C18_Witness ==
    /\ mpc = "return"
    /\ iter >= 2
    /\ merged_result = g
    /\ Cardinality(DOMAIN g) = 2
    /\ \E i \in 1..K(variant) : results[i] = EmptyGrid

----------------------------------------------------------------------------
(* C19 *)

ValidSlice(b, e, n) == 0 <= b /\ b <= e /\ e <= n

\* C19: the slice of every worker lies within the records, for every
\* number of records, every worker that has been started holds such a
\* slice and its iterator stays inside it, so the record it reads next
\* exists; and carto-mod.cpp (K = 3) hands out only empty slices when
\* there are fewer than K records.
C19_SliceBoundsValid ==
    /\ \A i \in 1..K(variant) :
        ValidSlice(SliceBegin(variant, Len(rows), i),
                   SliceEnd(variant, Len(rows), i), Len(rows))
    /\ \A i \in Workers :
        wpc[i] # "unstarted" =>
            /\ ValidSlice(wbegin[i], wend[i], Len(rows))
            /\ wbegin[i] <= it[i] /\ it[i] <= wend[i]
            /\ (wpc[i] = "run" /\ it[i] # wend[i]) => it[i] + 1 \in DOMAIN rows
    /\ (variant = "mod" /\ Len(rows) < K(variant)) =>
          \A i \in 1..K(variant) :
              SliceBegin(variant, Len(rows), i) = SliceEnd(variant, Len(rows), i)

\* fewer records than workers: every worker of carto-mod.cpp was started
\* on an empty slice
C19_Witness ==
    /\ variant = "mod"
    /\ Len(rows) = K(variant) - 1
    /\ mpc = "join"
    /\ \A i \in Workers : wpc[i] # "unstarted" /\ wbegin[i] = wend[i]

----------------------------------------------------------------------------
(* C20 *)

\* C20: a promise receives its value once, from its own worker, in the
\* step that ends the worker's work and with the loop at the end of the
\* slice, and the value is the grid of the whole slice; afterwards the
\* worker only finishes and the promise keeps its value until grid()
\* returns and destroys it. A future is read only when all the workers have
\* been joined, future i as the i-th read, so the value is there and
\* result i is the grid worker i delivered.
C20_Step ==
    /\ \A i \in Workers :
        /\ result_promises'[i] # result_promises[i] =>
              \/ /\ result_promises[i] = <<>>
                 /\ wpc[i] = "run" /\ wpc'[i] = "fulfilled"
                 /\ it[i] = wend[i]
                 /\ result_promises'[i] = <<SequentialGrid(rows, wbegin[i], wend[i])>>
                 /\ \A j \in Workers \ {i} :
                       result_promises'[j] = result_promises[j]
              \/ mpc = "return" /\ result_promises'[i] = <<>>
        /\ (wpc[i] = "fulfilled" /\ wpc'[i] # wpc[i]) =>
              wpc'[i] = "exited" /\ it'[i] = it[i]
        /\ wpc[i] \in {"fulfilled", "exited"} => result_promises[i] # <<>>
    /\ results' # results =>
          \/ /\ mpc = "get"
             /\ Len(results) = mi - 1
             /\ \A k \in 1..K(variant) : wpc[k] = "exited"
             /\ result_promises[mi] # <<>>
             /\ results' = Append(results, result_promises[mi][1])
          \/ mpc = "return" /\ results' = <<>>
    /\ mpc = "get" => ENABLED Get
    /\ Len(results) <= K(variant)
    /\ \A k \in 1..Len(results) : <<results[k]>> = result_promises[k]

C20_SingleAssignmentHandoff == [][C20_Step]_vars

\* all futures read, the results are those of the workers in order
C20_Witness ==
    /\ mpc = "merge"
    /\ Len(results) = K(variant)
    /\ results[1] # EmptyGrid
    /\ results[K(variant)] # results[1]
    /\ \A k \in 1..K(variant) : result_promises[k] = <<results[k]>>

====
